---- MODULE Spec2Model ----
(***************************************************************************)
(* Model of the War Tycoon question-answering widget:                      *)
(*   - the /api/chat request handler (embedding, index query, direct      *)
(*     fetches, merge/sort/dedupe/cap, context formatting, completion);    *)
(*   - the Index page's submit logic and the askQuestion client.           *)
(* Scores are kept in hundredths (1.0 = 100, 0.99 = 99).                   *)
(***************************************************************************)
EXTENDS Integers, Sequences, FiniteSets, TLC

VARIABLES
    pc,                  \* position of the handler: the await it is suspended at
    req,                 \* the request: method and body
    lowerCaseQuestion,   \* question.toLowerCase()
    finalMatches,        \* the accumulated record list
    primaryItemName,     \* "" while undefined
    idsToFetchIfNeeded,  \* ids of the per-item direct fetch
    limitedMatches,      \* the list handed to the formatter
    contexts,            \* the formatted context
    calls,               \* upstream calls issued so far, in order
    response,            \* the HTTP response sent (status 0: none yet)
    logged,              \* errors written to the server log
    completion,          \* the completion the handler received
    question,            \* UI: text of the input
    messages,            \* UI: transcript
    loading,             \* UI: loading flag
    inFlight,            \* UI: askQuestion calls not yet settled
    toasts,              \* UI: number of error notifications shown
    lastSettled,         \* UI: the askQuestion call settled last, if any
    fmtMatches,          \* formatter: the record list it is applied to
    fmtOut,              \* formatter: its result
    fmtCalled            \* formatter: whether it has run

hvars == <<pc, req, lowerCaseQuestion, finalMatches, primaryItemName,
           idsToFetchIfNeeded, limitedMatches, contexts, calls, response, logged,
           completion>>
uvars == <<question, messages, loading, inFlight, toasts, lastSettled>>
fvars == <<fmtMatches, fmtOut, fmtCalled>>
vars == <<pc, req, lowerCaseQuestion, finalMatches, primaryItemName,
          idsToFetchIfNeeded, limitedMatches, contexts, calls, response, logged,
          completion, question, messages, loading, inFlight, toasts, lastSettled,
          fmtMatches, fmtOut, fmtCalled>>

----------------------------------------------------------------------------
(* Bounds of the model *)

MaxMatches == 2
MaxMessages == 4

----------------------------------------------------------------------------
(* String primitives of the runtime *)

Min(a, b) == IF a < b THEN a ELSE b

UpperCase == <<"A","B","C","D","E","F","G","H","I","J","K","L","M",
               "N","O","P","Q","R","S","T","U","V","W","X","Y","Z">>
LowerCase == <<"a","b","c","d","e","f","g","h","i","j","k","l","m",
               "n","o","p","q","r","s","t","u","v","w","x","y","z">>
Digits == {"0","1","2","3","4","5","6","7","8","9"}

ToLowerChar(c) ==
    IF \E i \in 1..26 : UpperCase[i] = c
    THEN LowerCase[CHOOSE i \in 1..26 : UpperCase[i] = c]
    ELSE c

RECURSIVE toLowerCase(_)
toLowerCase(s) ==
    IF Len(s) = 0 THEN ""
    ELSE ToLowerChar(SubSeq(s, 1, 1)) \o toLowerCase(SubSeq(s, 2, Len(s)))

includes(s, kw) ==
    \E i \in 1..(Len(s) - Len(kw) + 1) : SubSeq(s, i, i + Len(kw) - 1) = kw

RECURSIVE trimStart(_)
trimStart(s) ==
    IF Len(s) > 0 /\ SubSeq(s, 1, 1) = " " THEN trimStart(SubSeq(s, 2, Len(s))) ELSE s

RECURSIVE trimEnd(_)
trimEnd(s) ==
    IF Len(s) > 0 /\ SubSeq(s, Len(s), Len(s)) = " "
    THEN trimEnd(SubSeq(s, 1, Len(s) - 1)) ELSE s

trim(s) == trimEnd(trimStart(s))

\* replace(/[^a-z0-9_]/g, '_')
RECURSIVE replaceNonAlnum(_)
replaceNonAlnum(s) ==
    IF Len(s) = 0 THEN ""
    ELSE LET c == SubSeq(s, 1, 1)
             keep == (\E i \in 1..26 : LowerCase[i] = c) \/ c \in Digits \/ c = "_"
         IN  (IF keep THEN c ELSE "_") \o replaceNonAlnum(SubSeq(s, 2, Len(s)))

\* replace(/_{2,}/g, '_')
RECURSIVE collapseUnderscores(_)
collapseUnderscores(s) ==
    IF Len(s) < 2 THEN s
    ELSE IF SubSeq(s, 1, 1) = "_" /\ SubSeq(s, 2, 2) = "_"
         THEN collapseUnderscores(SubSeq(s, 2, Len(s)))
         ELSE SubSeq(s, 1, 1) \o collapseUnderscores(SubSeq(s, 2, Len(s)))

itemNameSnakeCase(name) == collapseUnderscores(replaceNonAlnum(toLowerCase(name)))

----------------------------------------------------------------------------
(* Constants of api/chat *)

ALL_PLANES_KEYWORDS == <<"all planes", "all aircraft", "every plane", "list of planes",
                         "list all planes", "show all planes">>
ALL_PLANES_SUMMARY_DOC_ID == "all_aircraft_summary_info"
SPEED_STAT_KEYWORDS == <<"speed", "fast", "mph", "kph", "velocity">>
HEALTH_STAT_KEYWORDS == <<"health", "hp", "survivability", "durability", "hitpoints",
                          "hit points", "armor">>
GENERAL_STAT_KEYWORDS == <<"stats", "details", "info", "about", "full", "information", "data">>

KNOWN_GAME_ITEMS == <<
    [name |-> "P-51 Mustang", aliases |-> <<"p-51", "mustang", "p51">>, entityType |-> "aircraft"],
    [name |-> "MiG-29 Fulcrum", aliases |-> <<"mig-29", "fulcrum", "mig29">>, entityType |-> "aircraft"],
    [name |-> "Spitfire", aliases |-> <<"spitfire", "spit">>, entityType |-> "aircraft"] >>

TopK == 5
ContextCap_seven == 7
ContextCap == 10
SummaryScore == 100
FetchedScore == 99

NO_CONTEXT_TEXT == "No relevant information was found in the knowledge base for this query."
GENERIC_ERROR == "An error occurred while processing your request."
VALIDATION_ERROR == "Question is required and must be a non-empty string."
ANSWER_FALLBACK == "Sorry, I encountered an issue generating an answer."

----------------------------------------------------------------------------
(* The environment: requests, index contents, upstream outcomes *)

Methods == {"POST", "OPTIONS", "GET"}

QuestionStrings == {
    "list all planes",
    "what is the speed of the spitfire",
    "tell me about the P-51",
    "spitfire health",
    "is the spitfire the fastest of all planes",
    "is the spitfire faster than the mustang",
    "hello",
    "",
    "   " }

\* the value of req.body.question, with its JavaScript type
QuestionValues ==
    {[type |-> "string", val |-> q] : q \in QuestionStrings}
    \cup {[type |-> "undefined", val |-> ""], [type |-> "number", val |-> "42"]}

\* req.body is undefined when the request carries no body
Bodies ==
    {[present |-> FALSE, question |-> [type |-> "undefined", val |-> ""]]}
    \cup {[present |-> TRUE, question |-> v] : v \in QuestionValues}

ItemSuffixes == <<"_overview_full_text", "_general_info", "_stat_speed", "_stat_health">>
SuffixInfoType == <<"overview_full_text", "general_info", "stat_speed", "stat_health">>

\* metadata stored in the index under an id
MetadataOf(id) ==
    IF id = ALL_PLANES_SUMMARY_DOC_ID
    THEN [item_name |-> "All Aircraft", entity_type |-> "aircraft", info_type |-> "summary"]
    ELSE IF \E k \in 1..Len(KNOWN_GAME_ITEMS), x \in 1..Len(ItemSuffixes) :
                id = itemNameSnakeCase(KNOWN_GAME_ITEMS[k].name) \o ItemSuffixes[x]
    THEN LET kx == CHOOSE p \in (1..Len(KNOWN_GAME_ITEMS)) \X (1..Len(ItemSuffixes)) :
                       id = itemNameSnakeCase(KNOWN_GAME_ITEMS[p[1]].name) \o ItemSuffixes[p[2]]
         IN  [item_name |-> KNOWN_GAME_ITEMS[kx[1]].name, entity_type |-> "aircraft",
              info_type |-> SuffixInfoType[kx[2]]]
    ELSE [item_name |-> "", entity_type |-> "", info_type |-> ""]

\* ids and scores a similarity query may return
QueryIds == {ALL_PLANES_SUMMARY_DOC_ID, "spitfire_stat_speed", "p_51_mustang_general_info",
             "game_tips"}
\* similarity scores lie in [0, 1]: 1.0 ties with the score given to the summary
QueryScores == {40, 90, 100}

\* a record of the result set; src tells a query match ("query") from a record
\* built after fetch-by-id ("fetch") and is not read by the handler
ScoredRecord(id, score, src) ==
    [id |-> id, score |-> score, metadata |-> MetadataOf(id), src |-> src]

\* the index answers with at most topK matches, distinct ids, best score first
RECURSIVE MatchListsOfLen(_)
MatchListsOfLen(n) ==
    IF n = 0 THEN {<<>>}
    ELSE {Append(l, ScoredRecord(id, sc, "query")) :
            l \in MatchListsOfLen(n - 1), id \in QueryIds, sc \in QueryScores}

WellFormedMatches(l) ==
    /\ \A i, j \in 1..Len(l) : i # j => l[i].id # l[j].id
    /\ \A i \in 1..(Len(l) - 1) : l[i].score >= l[i + 1].score

\* a query answered with topK records, among them every document that a speed
\* question about the Spitfire would otherwise fetch
TopKMatches ==
    <<ScoredRecord("spitfire_stat_speed", 90, "query"),
      ScoredRecord("spitfire_overview_full_text", 90, "query"),
      ScoredRecord("game_tips", 40, "query"),
      ScoredRecord("spitfire_general_info", 40, "query"),
      ScoredRecord(ALL_PLANES_SUMMARY_DOC_ID, 40, "query")>>

MatchLists ==
    UNION {{l \in MatchListsOfLen(n) : WellFormedMatches(l)} : n \in 0..Min(TopK, MaxMatches)}
    \cup {TopKMatches}

\* errors thrown by the upstream clients
Errors == {
    [message |-> "Request failed with status code 401",
     responseMessage |-> "Incorrect API key provided: sk-live-1234",
     stack |-> "Error: Request failed at handler (/var/task/api/chat.js)"],
    [message |-> "connect ECONNREFUSED 10.0.0.7:443",
     responseMessage |-> "",
     stack |-> "Error: connect ECONNREFUSED at handler (/var/task/api/chat.js)"],
    [message |-> "", responseMessage |-> "", stack |-> "Error at handler (/var/task/api/chat.js)"] }

NoChoice == [hasChoice |-> FALSE, content |-> ""]
Completions ==
    {NoChoice} \cup {[hasChoice |-> TRUE, content |-> c] :
                        c \in {"The Spitfire reaches 400 MPH.", "  Not available.  ", "", "   "}}

SummaryFetchOutcomes == {"found", "nometadata", "norecord", "throw"}

Call(op, ids) == [op |-> op, ids |-> ids]

----------------------------------------------------------------------------
(* Pure parts of the handler *)

\* !question || typeof question !== 'string' || question.trim().length === 0
InvalidQuestion(q) ==
    \/ q.type # "string"
    \/ Len(q.val) = 0
    \/ Len(trim(q.val)) = 0

isAllPlanesQuery(lq) == \E i \in 1..Len(ALL_PLANES_KEYWORDS) : includes(lq, ALL_PLANES_KEYWORDS[i])

\* knownItem.name or one of its aliases occurs in the question
itemNameInQuery(lq, knownItem) ==
    \/ includes(lq, toLowerCase(knownItem.name))
    \/ \E a \in 1..Len(knownItem.aliases) : includes(lq, toLowerCase(knownItem.aliases[a]))

HasId(fm, id) == \E i \in 1..Len(fm) : fm[i].id = id

\* KNOWN_GAME_ITEMS.find(...) for one semantic match: index of the entry, 0 if none
foundKnownItem(lq, match) ==
    LET hits == {k \in 1..Len(KNOWN_GAME_ITEMS) :
                    /\ itemNameInQuery(lq, KNOWN_GAME_ITEMS[k])
                    /\ toLowerCase(KNOWN_GAME_ITEMS[k].name) = toLowerCase(match.metadata.item_name)}
    IN  IF hits = {} THEN 0 ELSE CHOOSE k \in hits : \A h \in hits : k <= h

\* first loop: the first match naming a known item that the question names too
PrimaryFromMatches(lq, fm) ==
    LET ok == {i \in 1..Len(fm) :
                  /\ fm[i].metadata.item_name # ""
                  /\ fm[i].metadata.entity_type # ""
                  /\ foundKnownItem(lq, fm[i]) # 0}
    IN  IF ok = {} THEN 0
        ELSE foundKnownItem(lq, fm[CHOOSE i \in ok : \A j \in ok : i <= j])

\* second loop: the first catalog entry whose name or alias occurs in the question
PrimaryFromQuestion_last(lq) ==
    LET hits == {k \in 1..Len(KNOWN_GAME_ITEMS) : itemNameInQuery(lq, KNOWN_GAME_ITEMS[k])}
    IN  IF hits = {} THEN 0 ELSE CHOOSE k \in hits : \A h \in hits : k >= h
PrimaryFromQuestion(lq) ==
    LET hits == {k \in 1..Len(KNOWN_GAME_ITEMS) : itemNameInQuery(lq, KNOWN_GAME_ITEMS[k])}
    IN  IF hits = {} THEN 0 ELSE CHOOSE k \in hits : \A h \in hits : k <= h

\* index into KNOWN_GAME_ITEMS of the primary item, 0 when none is identified
IdentifyPrimaryItem_ignoresListAll(lq, fm) ==
    LET fromMatches == PrimaryFromMatches(lq, fm)
    IN  IF fromMatches = 0 THEN PrimaryFromQuestion(lq) ELSE fromMatches
IdentifyPrimaryItem(lq, fm) ==
    LET all == isAllPlanesQuery(lq)
        fromMatches == IF ~all \/ (all /\ ~HasId(fm, ALL_PLANES_SUMMARY_DOC_ID))
                       THEN PrimaryFromMatches(lq, fm) ELSE 0
    IN  IF fromMatches = 0 /\ ~all THEN PrimaryFromQuestion(lq) ELSE fromMatches

requestsSpecificSpeed(lq) == \E i \in 1..Len(SPEED_STAT_KEYWORDS) : includes(lq, SPEED_STAT_KEYWORDS[i])
requestsSpecificHealth_wrong(lq) == requestsSpecificSpeed(lq)
requestsSpecificHealth(lq) == \E i \in 1..Len(HEALTH_STAT_KEYWORDS) : includes(lq, HEALTH_STAT_KEYWORDS[i])

requestsGeneralItemStats(lq, k) ==
    /\ \/ includes(lq, toLowerCase(KNOWN_GAME_ITEMS[k].name))
       \/ \E a \in 1..Len(KNOWN_GAME_ITEMS[k].aliases) : includes(lq, KNOWN_GAME_ITEMS[k].aliases[a])
    /\ \E g \in 1..Len(GENERAL_STAT_KEYWORDS) : includes(lq, GENERAL_STAT_KEYWORDS[g])

\* idsToFetchIfNeeded for primary item k (k = 0: no primary item, nothing to fetch)
IdsToFetch_all(lq, fm, k) ==
    IF k = 0 \/ KNOWN_GAME_ITEMS[k].entityType # "aircraft" THEN <<>>
    ELSE LET snake == itemNameSnakeCase(KNOWN_GAME_ITEMS[k].name)
             wanted == <<TRUE, TRUE,
                         requestsSpecificSpeed(lq) \/ requestsGeneralItemStats(lq, k),
                         requestsSpecificHealth(lq) \/ requestsGeneralItemStats(lq, k)>>
             F[x \in 0..Len(ItemSuffixes)] ==
                 IF x = 0 THEN <<>>
                 ELSE IF wanted[x] THEN Append(F[x - 1], snake \o ItemSuffixes[x]) ELSE F[x - 1]
         IN  F[Len(ItemSuffixes)]
IdsToFetch(lq, fm, k) ==
    IF k = 0 \/ KNOWN_GAME_ITEMS[k].entityType # "aircraft" THEN <<>>
    ELSE LET snake == itemNameSnakeCase(KNOWN_GAME_ITEMS[k].name)
             wanted == <<TRUE, TRUE,
                         requestsSpecificSpeed(lq) \/ requestsGeneralItemStats(lq, k),
                         requestsSpecificHealth(lq) \/ requestsGeneralItemStats(lq, k)>>
             pick(x) == wanted[x] /\ ~HasId(fm, snake \o ItemSuffixes[x])
             F[x \in 0..Len(ItemSuffixes)] ==
                 IF x = 0 THEN <<>>
                 ELSE IF pick(x) THEN Append(F[x - 1], snake \o ItemSuffixes[x]) ELSE F[x - 1]
         IN  F[Len(ItemSuffixes)]

\* finalMatches.sort((a, b) => (b.score || 0) - (a.score || 0)): a stable sort
RECURSIVE InsertByScore(_, _)
InsertByScore(sorted, x) ==
    IF Len(sorted) = 0 THEN <<x>>
    ELSE IF sorted[Len(sorted)].score >= x.score THEN Append(sorted, x)
         ELSE Append(InsertByScore(SubSeq(sorted, 1, Len(sorted) - 1), x), sorted[Len(sorted)])

RECURSIVE SortByScoreDesc(_)
SortByScoreDesc(fm) ==
    IF Len(fm) = 0 THEN <<>>
    ELSE InsertByScore(SortByScoreDesc(SubSeq(fm, 1, Len(fm) - 1)), fm[Len(fm)])

\* Map.prototype.set: a new key is appended, an existing key keeps its place and
\* takes the new value
MapSet_keepAll(m, key, value) == Append(m, [key |-> key, value |-> value])
MapSet(m, key, value) ==
    IF \E i \in 1..Len(m) : m[i].key = key
    THEN [i \in 1..Len(m) |-> IF m[i].key = key THEN [key |-> key, value |-> value] ELSE m[i]]
    ELSE Append(m, [key |-> key, value |-> value])

RECURSIVE NewMap(_)
NewMap(entries) ==
    IF Len(entries) = 0 THEN <<>>
    ELSE MapSet(NewMap(SubSeq(entries, 1, Len(entries) - 1)),
                entries[Len(entries)].id, entries[Len(entries)])

\* Array.from(new Map(finalMatches.map(match => [match.id, match])).values())
uniqueMatches(sorted) == LET m == NewMap(sorted) IN [i \in 1..Len(m) |-> m[i].value]

Slice(s, n) == SubSeq(s, 1, Min(n, Len(s)))

\* a metadata object maps the fields it has to their values; any other field
\* reads as undefined
Has(md, f) == f \in DOMAIN md

\* md[f] || d for a text or numeric field
OrElse(md, f, d) == IF Has(md, f) /\ md[f] # "" THEN md[f] ELSE d

\* md[f] ?? d
Nullish(md, f, d) == IF Has(md, f) THEN md[f] ELSE d

\* a value of a list field: an array of texts, or one text where the data holds a
\* plain string
ArrayOf(items) == [isArray |-> TRUE, items |-> items, text |-> ""]
TextOf(text) == [isArray |-> FALSE, items |-> <<>>, text |-> text]

\* v.length
Length(v) == IF v.isArray THEN Len(v.items) ELSE Len(v.text)

\* md[f] && md[f].length > 0 for a list field
NonEmptyList(md, f) == Has(md, f) /\ Length(md[f]) > 0

\* Array.prototype.join
RECURSIVE join(_, _)
join(list, sep) ==
    IF Len(list) = 0 THEN ""
    ELSE IF Len(list) = 1 THEN list[1]
    ELSE list[1] \o sep \o join(SubSeq(list, 2, Len(list)), sep)

Digit(d) == SubSeq("0123456789", d + 1, d + 1)

\* score.toFixed(4) of a score kept in hundredths
toFixed4(score) ==
    Digit(score \div 100) \o "." \o Digit((score % 100) \div 10) \o Digit(score % 10) \o "00"

DIRECTLY_FETCHED == "N/A (Directly Fetched)"
NO_SOURCE_TEXT == "No source text available for this chunk."

\* one line of the detail block: its label and the values interpolated into it
Line(label, values) == [label |-> label, values |-> values]

\* the lines written for one plane of the summary record
PlaneLines(plane) ==
    <<Line("Name", <<OrElse(plane, "name", "N/A")>>)>>
    \o (IF OrElse(plane, "price", "") # ""
        THEN <<Line("Price/Unlock",
                    <<plane["price"] \o (IF OrElse(plane, "unlock_method", "") # ""
                                         THEN " (" \o plane["unlock_method"] \o ")" ELSE "")>>)>>
        ELSE <<>>)
    \o (IF OrElse(plane, "seating_capacity", "") # ""
        THEN <<Line("Seating", <<plane["seating_capacity"]>>)>> ELSE <<>>)
    \o (IF Has(plane, "armament_summary") /\ plane["armament_summary"] # TextOf("")
        THEN <<Line("Armaments", <<IF plane["armament_summary"].isArray
                                   THEN join(plane["armament_summary"].items, ", ")
                                   ELSE plane["armament_summary"].text>>)>>
        ELSE <<>>)
    \o (IF OrElse(plane, "speed_range", "") # ""
        THEN <<Line("Speed", <<plane["speed_range"]>>)>> ELSE <<>>)
    \o (IF OrElse(plane, "health_range", "") # ""
        THEN <<Line("Health", <<plane["health_range"]>>)>> ELSE <<>>)

RECURSIVE SummaryDetails(_)
SummaryDetails(planes) ==
    IF Len(planes) = 0 THEN <<>>
    ELSE PlaneLines(planes[1]) \o SummaryDetails(SubSeq(planes, 2, Len(planes)))

\* a list-valued field is written as one joined line, and only when non-empty
ListLine(md, f, label, sep) ==
    IF NonEmptyList(md, f) THEN <<Line(label, <<join(md[f].items, sep)>>)>> ELSE <<>>

\* the same behind an Array.isArray test, a plain string being written as it is
GuardedListLine(md, f, label) ==
    IF Has(md, f) /\ md[f].isArray /\ Len(md[f].items) > 0
    THEN <<Line(label, <<join(md[f].items, ", ")>>)>>
    ELSE IF Has(md, f) /\ ~md[f].isArray /\ Len(trim(md[f].text)) > 0
    THEN <<Line(label, <<md[f].text>>)>>
    ELSE <<>>

\* a display range is written when either end is set
RangeLine(md, lo, hi, label) ==
    IF OrElse(md, lo, "") # "" \/ OrElse(md, hi, "") # ""
    THEN <<Line(label, <<OrElse(md, lo, "[TBA]"), OrElse(md, hi, "[TBA]")>>)>>
    ELSE <<>>

GeneralInfoDetails(md) ==
    LET spawnCosts ==
            (IF Has(md, "parts_cost_hulls")
             THEN <<"Hulls: " \o md["parts_cost_hulls"]>> ELSE <<>>)
            \o (IF Has(md, "parts_cost_weapon_systems")
                THEN <<"Weapon Systems: " \o md["parts_cost_weapon_systems"]>> ELSE <<>>)
            \o (IF Has(md, "parts_cost_engines")
                THEN <<"Engines: " \o md["parts_cost_engines"]>> ELSE <<>>)
    IN  <<Line("Price/Unlock",
               <<IF Has(md, "price") /\ md["price"] # "N/A"
                 THEN OrElse(md, "currency", "") \o md["price"]
                 ELSE OrElse(md, "unlock_method", "N/A")>>),
          Line("Unlock Details", <<OrElse(md, "unlock_details", "N/A")>>),
          Line("Seating Capacity", <<Nullish(md, "seating_capacity", "N/A")>>)>>
        \o GuardedListLine(md, "armament_summary", "Armaments Summary")
        \o GuardedListLine(md, "utility", "Utilities")
        \o <<Line("Component Counts", <<Nullish(md, "hulls_component_count", "N/A"),
                                        Nullish(md, "engines_component_count", "N/A")>>)>>
        \o (IF Len(spawnCosts) > 0 THEN <<Line("Spawn Parts Cost", spawnCosts)>> ELSE <<>>)
        \o RangeLine(md, "speed_min_display", "speed_max_display", "Display Speed Range")
        \o RangeLine(md, "health_min_display", "health_max_display", "Display Health Range")

\* the four tiers of a stat record: label, display field, value field
StatTiers(stat) ==
    <<[label |-> "Non-Upgraded", display |-> "display_" \o stat \o "_non_upgraded",
       val |-> stat \o "_nu_val"],
      [label |-> "Tier 1", display |-> "display_" \o stat \o "_tier_1", val |-> stat \o "_t1_val"],
      [label |-> "Tier 2", display |-> "display_" \o stat \o "_tier_2", val |-> stat \o "_t2_val"],
      [label |-> "Tier 3", display |-> "display_" \o stat \o "_tier_3", val |-> stat \o "_t3_val"]>>

\* tier lines, each written only when its display field is defined
RECURSIVE TierLines(_, _)
TierLines(md, tiers) ==
    IF Len(tiers) = 0 THEN <<>>
    ELSE (IF Has(md, tiers[1].display)
          THEN <<Line(tiers[1].label, <<md[tiers[1].display],
                                        Nullish(md, tiers[1].val, "[TBA]")>>)>>
          ELSE <<>>)
         \o TierLines(md, SubSeq(tiers, 2, Len(tiers)))

StatDetails(md, stat, title) ==
    <<Line(title, <<OrElse(md, "unit", "N/A")>>)>> \o TierLines(md, StatTiers(stat))

ArmamentDetails(md) ==
    <<Line("Described Weapon", <<OrElse(md, "weapon_name", "N/A"), Nullish(md, "count", "N/A"),
                                 OrElse(md, "weapon_type_general", "N/A")>>)>>
    \o ListLine(md, "characteristics", "Characteristics", ", ")
    \o <<Line("Notes", <<OrElse(md, "notes", "N/A")>>)>>

HistoryDetails(md) ==
    <<Line("Section", <<OrElse(md, "section_title", "History")>>)>>
    \o ListLine(md, "key_periods", "Key Periods", ", ")

OverviewConciseDetails(md) ==
    <<Line("Role", <<OrElse(md, "role", "N/A")>>)>>
    \o ListLine(md, "strengths", "Strengths", "; ")
    \o ListLine(md, "weaknesses", "Weaknesses", "; ")
    \o ListLine(md, "utility_summary_for_concise", "Utilities", ", ")

CategoryDetails(md) == <<Line("Category", <<OrElse(md, "aircraft_category", "N/A")>>)>>

\* the structured detail block of a record: the template chosen by the record's
\* id or by its (entity_type, info_type), and nothing when there is none
Details(id, md) ==
    IF id = ALL_PLANES_SUMMARY_DOC_ID /\ Has(md, "planes_summary") /\ md["planes_summary"].isArray
    THEN <<Line("Summary of All Aircraft", <<>>)>> \o SummaryDetails(md["planes_summary"].items)
    ELSE IF OrElse(md, "entity_type", "") # "aircraft" THEN <<>>
    ELSE LET info_type == OrElse(md, "info_type", "")
         IN  IF info_type = "general_info" THEN GeneralInfoDetails(md)
             ELSE IF info_type = "stat_speed"
             THEN StatDetails(md, "speed", "Detailed Speed Stats")
             ELSE IF info_type = "stat_health"
             THEN StatDetails(md, "health", "Detailed Health Stats")
             ELSE IF info_type = "armament_description" THEN ArmamentDetails(md)
             ELSE IF info_type = "history" THEN HistoryDetails(md)
             ELSE IF info_type = "overview_concise" THEN OverviewConciseDetails(md)
             ELSE IF info_type = "category_membership" THEN CategoryDetails(md)
             ELSE <<>>

\* the list fields a template joins without testing that they are arrays
UnguardedJoins(info_type) ==
    IF info_type = "armament_description" THEN {"characteristics"}
    ELSE IF info_type = "history" THEN {"key_periods"}
    ELSE IF info_type = "overview_concise"
    THEN {"strengths", "weaknesses", "utility_summary_for_concise"}
    ELSE {}

\* .join called on a non-empty plain string: a TypeError
DetailsThrow(id, md) ==
    /\ ~(id = ALL_PLANES_SUMMARY_DOC_ID /\ Has(md, "planes_summary")
                                        /\ md["planes_summary"].isArray)
    /\ OrElse(md, "entity_type", "") = "aircraft"
    /\ \E f \in UnguardedJoins(OrElse(md, "info_type", "")) :
            NonEmptyList(md, f) /\ ~md[f].isArray

\* a chunk whose rendering threw
Thrown(index) ==
    [threw |-> TRUE, chunk |-> index, id |-> "", score |-> "", item_name |-> "",
     entity_type |-> "", info_type |-> "", details |-> <<>>, source |-> ""]

\* one context chunk: header, detail block, raw source text
ContextChunk_unguarded(match, index) ==
    IF ~Has(match, "metadata") THEN Thrown(index)
    ELSE IF DetailsThrow(OrElse(match, "id", "N/A"), match.metadata) THEN Thrown(index)
    ELSE [threw |-> FALSE, chunk |-> index, id |-> OrElse(match, "id", "N/A"),
          score |-> IF Has(match, "score") THEN toFixed4(match.score) ELSE DIRECTLY_FETCHED,
          item_name |-> OrElse(match.metadata, "item_name", "Unknown Item"),
          entity_type |-> OrElse(match.metadata, "entity_type", "Unknown"),
          info_type |-> OrElse(match.metadata, "info_type", "General"),
          details |-> Details(OrElse(match, "id", "N/A"), match.metadata),
          source |-> OrElse(match.metadata, "text_content_source", NO_SOURCE_TEXT)]
ContextChunk(match, index) ==
    LET metadata == IF Has(match, "metadata") THEN match.metadata ELSE <<>>
        id == OrElse(match, "id", "N/A")
    IN  IF DetailsThrow(id, metadata) THEN Thrown(index) ELSE
        [threw |-> FALSE, chunk |-> index, id |-> id,
         score |-> IF Has(match, "score") THEN toFixed4(match.score) ELSE DIRECTLY_FETCHED,
         item_name |-> OrElse(metadata, "item_name", "Unknown Item"),
         entity_type |-> OrElse(metadata, "entity_type", "Unknown"),
         info_type |-> OrElse(metadata, "info_type", "General"),
         details |-> Details(id, metadata),
         source |-> OrElse(metadata, "text_content_source", NO_SOURCE_TEXT)]

formatRetrievedContext_noFallback(matches) ==
    IF \E i \in 1..Len(matches) : ContextChunk(matches[i], i).threw
    THEN [threw |-> TRUE, text |-> "", blocks |-> <<>>]
    ELSE [threw |-> FALSE, text |-> "",
          blocks |-> [i \in 1..Len(matches) |-> ContextChunk(matches[i], i)]]
formatRetrievedContext(matches) ==
    IF Len(matches) = 0
    THEN [threw |-> FALSE, text |-> NO_CONTEXT_TEXT, blocks |-> <<>>]
    ELSE IF \E i \in 1..Len(matches) : ContextChunk(matches[i], i).threw
    THEN [threw |-> TRUE, text |-> "", blocks |-> <<>>]
    ELSE [threw |-> FALSE, text |-> "",
          blocks |-> [i \in 1..Len(matches) |-> ContextChunk(matches[i], i)]]

\* the catch block: message extraction and the 500 body
errorMessage(error) ==
    IF error.responseMessage # "" THEN error.responseMessage
    ELSE IF error.message # "" THEN error.message
    ELSE GENERIC_ERROR

\* JSON.stringify(error, Object.getOwnPropertyNames(error))
StringifyOwnProperties(error) == [stack |-> error.stack, message |-> error.message]

ErrorResponse_ok(error) == [status |-> 200, body |-> [answer |-> errorMessage(error)]]
ErrorResponse(error) ==
    [status |-> 500,
     body |-> [error |-> errorMessage(error), details |-> StringifyOwnProperties(error)]]

\* completion.choices[0]?.message?.content?.trim() || fallback
AnswerOf_untrimmed(output) ==
    IF output.hasChoice /\ Len(output.content) > 0
    THEN output.content ELSE ANSWER_FALLBACK
AnswerOf(output) ==
    IF output.hasChoice /\ Len(trim(output.content)) > 0
    THEN trim(output.content) ELSE ANSWER_FALLBACK

----------------------------------------------------------------------------
(* The request handler, one action per resumption point *)

NoResponse == [status |-> 0, body |-> <<>>]

NoError == [message |-> "", responseMessage |-> "", stack |-> ""]

\* one line of the server log: console.error (level "error") or console.log
LogEntry(src, level, error) == [src |-> src, level |-> level, error |-> error]

HandlerInit ==
    /\ pc = "idle"
    /\ req = [method |-> "", body |-> [present |-> FALSE, question |-> [type |-> "undefined", val |-> ""]]]
    /\ lowerCaseQuestion = ""
    /\ finalMatches = <<>>
    /\ primaryItemName = ""
    /\ idsToFetchIfNeeded = <<>>
    /\ limitedMatches = <<>>
    /\ contexts = [threw |-> FALSE, text |-> "", blocks |-> <<>>]
    /\ calls = <<>>
    /\ response = NoResponse
    /\ logged = <<>>
    /\ completion = NoChoice

UIInit ==
    /\ question = ""
    /\ messages = <<>>
    /\ loading = FALSE
    /\ inFlight = <<>>
    /\ toasts = 0
    /\ lastSettled = <<>>

\* res.status(s).json(b) / res.status(s).end()
Respond(status, body) ==
    /\ response' = [status |-> status, body |-> body]
    /\ pc' = "done"

\* catch (error): log it, answer 500
Catch(error) ==
    /\ logged' = Append(logged, LogEntry("handler", "error", error))
    /\ response' = ErrorResponse(error)
    /\ pc' = "done"

\* score 1.0 record built from the fetched summary document
summaryMatch_unscored(id) == ScoredRecord(id, 0, "fetch")
summaryMatch(id) == ScoredRecord(id, SummaryScore, "fetch")

fetchedMatch(id) == ScoredRecord(id, FetchedScore, "fetch")

\* sort, dedupe, cap, format, then issue the completion call
IssueCompletion_uncapped(fm, k, ids, cs) ==
    LET sorted == SortByScoreDesc(fm)
        limited == sorted \o uniqueMatches(sorted)
    IN  /\ finalMatches' = sorted
        /\ primaryItemName' = IF k = 0 THEN "" ELSE KNOWN_GAME_ITEMS[k].name
        /\ idsToFetchIfNeeded' = ids
        /\ limitedMatches' = limited
        /\ contexts' = formatRetrievedContext(limited)
        /\ calls' = Append(cs, Call("complete", <<>>))
        /\ pc' = "awaitCompletion"
IssueCompletion(fm, k, ids, cs) ==
    LET sorted == SortByScoreDesc(fm)
        limited == Slice(uniqueMatches(sorted), ContextCap)
    IN  /\ finalMatches' = sorted
        /\ primaryItemName' = IF k = 0 THEN "" ELSE KNOWN_GAME_ITEMS[k].name
        /\ idsToFetchIfNeeded' = ids
        /\ limitedMatches' = limited
        /\ contexts' = formatRetrievedContext(limited)
        /\ calls' = Append(cs, Call("complete", <<>>))
        /\ pc' = "awaitCompletion"

\* primary-item identification and the fetch list, up to the next await
AfterIntent_perId(fm, cs) ==
    LET k == IdentifyPrimaryItem(lowerCaseQuestion, fm)
        ids == IdsToFetch(lowerCaseQuestion, fm, k)
    IN  IF Len(ids) > 0
        THEN /\ finalMatches' = fm
             /\ primaryItemName' = KNOWN_GAME_ITEMS[k].name
             /\ idsToFetchIfNeeded' = ids
             /\ calls' = cs \o [i \in 1..Len(ids) |-> Call("fetch", <<ids[i]>>)]
             /\ pc' = "awaitItemFetch"
             /\ UNCHANGED <<limitedMatches, contexts>>
        ELSE IssueCompletion(fm, k, ids, cs)
AfterIntent(fm, cs) ==
    LET k == IdentifyPrimaryItem(lowerCaseQuestion, fm)
        ids == IdsToFetch(lowerCaseQuestion, fm, k)
    IN  IF Len(ids) > 0
        THEN /\ finalMatches' = fm
             /\ primaryItemName' = KNOWN_GAME_ITEMS[k].name
             /\ idsToFetchIfNeeded' = ids
             /\ calls' = Append(cs, Call("fetch", ids))
             /\ pc' = "awaitItemFetch"
             /\ UNCHANGED <<limitedMatches, contexts>>
        ELSE IssueCompletion(fm, k, ids, cs)

Receive_postOnly ==
    /\ pc = "idle"
    /\ \E method \in Methods, body \in Bodies :
        /\ req' = [method |-> method, body |-> body]
        /\ IF method # "POST"
           THEN Respond(405, [error |-> "Method not allowed"]) /\ UNCHANGED <<lowerCaseQuestion, calls>>
           ELSE IF ~body.present
           THEN \* const { question } = undefined: TypeError outside the try block
                pc' = "threw" /\ UNCHANGED <<lowerCaseQuestion, calls, response>>
           ELSE IF InvalidQuestion(body.question)
           THEN Respond(400, [error |-> VALIDATION_ERROR]) /\ UNCHANGED <<lowerCaseQuestion, calls>>
           ELSE /\ lowerCaseQuestion' = toLowerCase(body.question.val)
                /\ calls' = Append(calls, Call("embed", <<>>))
                /\ pc' = "awaitEmbedding"
                /\ UNCHANGED response
    /\ UNCHANGED <<finalMatches, primaryItemName, idsToFetchIfNeeded, limitedMatches, contexts, logged>>
    /\ UNCHANGED completion
    /\ UNCHANGED <<uvars, fvars>>
Receive ==
    /\ pc = "idle"
    /\ \E method \in Methods, body \in Bodies :
        /\ req' = [method |-> method, body |-> body]
        /\ IF method = "OPTIONS"
           THEN Respond(200, <<>>) /\ UNCHANGED <<lowerCaseQuestion, calls>>
           ELSE IF method # "POST"
           THEN Respond(405, [error |-> "Method not allowed"]) /\ UNCHANGED <<lowerCaseQuestion, calls>>
           ELSE IF ~body.present
           THEN \* const { question } = undefined: TypeError outside the try block
                pc' = "threw" /\ UNCHANGED <<lowerCaseQuestion, calls, response>>
           ELSE IF InvalidQuestion(body.question)
           THEN Respond(400, [error |-> VALIDATION_ERROR]) /\ UNCHANGED <<lowerCaseQuestion, calls>>
           ELSE /\ lowerCaseQuestion' = toLowerCase(body.question.val)
                /\ calls' = Append(calls, Call("embed", <<>>))
                /\ pc' = "awaitEmbedding"
                /\ UNCHANGED response
    /\ UNCHANGED <<finalMatches, primaryItemName, idsToFetchIfNeeded, limitedMatches, contexts, logged>>
    /\ UNCHANGED completion
    /\ UNCHANGED <<uvars, fvars>>

EmbeddingReturns_twoQueries ==
    /\ pc = "awaitEmbedding"
    /\ \/ /\ calls' = calls \o <<Call("query", <<>>), Call("query", <<>>)>>
          /\ pc' = "awaitQuery"
          /\ UNCHANGED <<response, logged>>
       \/ \E error \in Errors : Catch(error) /\ UNCHANGED calls
    /\ UNCHANGED <<req, lowerCaseQuestion, finalMatches, primaryItemName, idsToFetchIfNeeded,
                   limitedMatches, contexts>>
    /\ UNCHANGED completion
    /\ UNCHANGED <<uvars, fvars>>
EmbeddingReturns_queriesAnyway ==
    /\ pc = "awaitEmbedding"
    /\ \/ /\ calls' = Append(calls, Call("query", <<>>))
          /\ pc' = "awaitQuery"
          /\ UNCHANGED <<response, logged>>
       \/ \E error \in Errors : Catch(error) /\ calls' = Append(calls, Call("query", <<>>))
    /\ UNCHANGED <<req, lowerCaseQuestion, finalMatches, primaryItemName, idsToFetchIfNeeded,
                   limitedMatches, contexts>>
    /\ UNCHANGED completion
    /\ UNCHANGED <<uvars, fvars>>
EmbeddingReturns ==
    /\ pc = "awaitEmbedding"
    /\ \/ /\ calls' = Append(calls, Call("query", <<>>))
          /\ pc' = "awaitQuery"
          /\ UNCHANGED <<response, logged>>
       \/ \E error \in Errors : Catch(error) /\ UNCHANGED calls
    /\ UNCHANGED <<req, lowerCaseQuestion, finalMatches, primaryItemName, idsToFetchIfNeeded,
                   limitedMatches, contexts>>
    /\ UNCHANGED completion
    /\ UNCHANGED <<uvars, fvars>>

QueryReturns ==
    /\ pc = "awaitQuery"
    /\ \/ \E matches \in MatchLists :
            /\ IF isAllPlanesQuery(lowerCaseQuestion)
               THEN /\ finalMatches' = matches
                    /\ calls' = Append(calls, Call("fetch", <<ALL_PLANES_SUMMARY_DOC_ID>>))
                    /\ pc' = "awaitSummaryFetch"
                    /\ UNCHANGED <<primaryItemName, idsToFetchIfNeeded, limitedMatches, contexts>>
               ELSE AfterIntent(matches, calls)
            /\ UNCHANGED <<response, logged>>
       \/ \E error \in Errors :
            /\ Catch(error)
            /\ UNCHANGED <<finalMatches, primaryItemName, idsToFetchIfNeeded, limitedMatches,
                           contexts, calls>>
    /\ UNCHANGED <<req, lowerCaseQuestion>>
    /\ UNCHANGED completion
    /\ UNCHANGED <<uvars, fvars>>

\* a thrown fetch error is logged by the inner catch and the handler goes on
SummaryFetchReturns_fatal ==
    /\ pc = "awaitSummaryFetch"
    /\ \E outcome \in SummaryFetchOutcomes :
        IF outcome = "throw"
        THEN /\ \E error \in Errors :
                    /\ logged' = logged \o <<LogEntry("summaryFetch", "error", error),
                                             LogEntry("handler", "error", error)>>
                    /\ response' = ErrorResponse(error)
                    /\ pc' = "done"
             /\ UNCHANGED <<finalMatches, primaryItemName, idsToFetchIfNeeded, limitedMatches,
                            contexts, calls>>
        ELSE /\ AfterIntent(IF outcome = "found"
                            THEN <<summaryMatch(ALL_PLANES_SUMMARY_DOC_ID)>> \o finalMatches
                            ELSE finalMatches, calls)
             /\ IF outcome = "found" THEN UNCHANGED logged
                ELSE logged' = Append(logged, LogEntry("summaryFetch", "log", NoError))
             /\ UNCHANGED response
    /\ UNCHANGED <<req, lowerCaseQuestion>>
    /\ UNCHANGED completion
    /\ UNCHANGED <<uvars, fvars>>

SummaryFetchReturns ==
    /\ pc = "awaitSummaryFetch"
    /\ \E outcome \in SummaryFetchOutcomes :
        /\ AfterIntent(IF outcome = "found"
                       THEN <<summaryMatch(ALL_PLANES_SUMMARY_DOC_ID)>> \o finalMatches
                       ELSE finalMatches, calls)
        /\ IF outcome = "throw"
           THEN \E error \in Errors :
                    logged' = Append(logged, LogEntry("summaryFetch", "error", error))
           ELSE IF outcome = "found" THEN UNCHANGED logged
           ELSE logged' = Append(logged, LogEntry("summaryFetch", "log", NoError))
    /\ UNCHANGED <<req, lowerCaseQuestion, response>>
    /\ UNCHANGED completion
    /\ UNCHANGED <<uvars, fvars>>

\* records found for the requested ids, pushed in request order
RECURSIVE PushFetched(_, _, _)
PushFetched(fm, ids, found) ==
    IF Len(ids) = 0 THEN fm
    ELSE PushFetched(IF ids[1] \in found THEN Append(fm, fetchedMatch(ids[1])) ELSE fm,
                     SubSeq(ids, 2, Len(ids)), found)

\* one "Could not fetch" line per requested id that came back without a record
MissingLog(ids, found) ==
    [i \in 1..Cardinality({j \in 1..Len(ids) : ids[j] \notin found}) |->
        LogEntry("itemFetch", "log", NoError)]

ItemFetchReturns ==
    /\ pc = "awaitItemFetch"
    /\ \/ \E found \in SUBSET {idsToFetchIfNeeded[i] : i \in 1..Len(idsToFetchIfNeeded)} :
            /\ IssueCompletion(PushFetched(finalMatches, idsToFetchIfNeeded, found),
                               CHOOSE k \in 1..Len(KNOWN_GAME_ITEMS) :
                                   KNOWN_GAME_ITEMS[k].name = primaryItemName,
                               idsToFetchIfNeeded, calls)
            /\ logged' = logged \o MissingLog(idsToFetchIfNeeded, found)
       \/ \E error \in Errors :
            /\ IssueCompletion(finalMatches,
                               CHOOSE k \in 1..Len(KNOWN_GAME_ITEMS) :
                                   KNOWN_GAME_ITEMS[k].name = primaryItemName,
                               idsToFetchIfNeeded, calls)
            /\ logged' = Append(logged, LogEntry("itemFetch", "error", error))
    /\ UNCHANGED <<req, lowerCaseQuestion, response>>
    /\ UNCHANGED completion
    /\ UNCHANGED <<uvars, fvars>>

CompletionReturns ==
    /\ pc = "awaitCompletion"
    /\ \/ \E output \in Completions :
            /\ completion' = output
            /\ Respond(200, [answer |-> AnswerOf(output)])
            /\ UNCHANGED logged
       \/ \E error \in Errors : Catch(error) /\ UNCHANGED completion
    /\ UNCHANGED <<req, lowerCaseQuestion, finalMatches, primaryItemName, idsToFetchIfNeeded,
                   limitedMatches, contexts, calls>>
    /\ UNCHANGED <<uvars, fvars>>

----------------------------------------------------------------------------
(* The Index page and the askQuestion client *)

InputTexts == {"", "  ", "list all planes", "spitfire health"}

ASK_FALLBACK == "Sorry, I could not generate an answer."
ASK_ERROR == "Failed to get answer from AI"

\* what fetch('/api/chat') can produce: a network failure or an HTTP response with
\* its status, whether its body parses as JSON, and the body's answer and error
FetchOutcome(network, status, json, answer, error) ==
    [network |-> network, status |-> status, json |-> json, answer |-> answer, error |-> error]

FetchOutcomes == {
    FetchOutcome(FALSE, 200, TRUE, "The Spitfire reaches 400 MPH.", ""),
    FetchOutcome(FALSE, 200, TRUE, "", ""),
    FetchOutcome(FALSE, 200, FALSE, "", ""),
    FetchOutcome(FALSE, 400, TRUE, "", VALIDATION_ERROR),
    FetchOutcome(FALSE, 405, TRUE, "", "Method not allowed"),
    FetchOutcome(FALSE, 500, TRUE, "", "Incorrect API key provided"),
    FetchOutcome(FALSE, 500, FALSE, "", ""),
    FetchOutcome(TRUE, 0, FALSE, "", "") }

\* askQuestion: the settled promise, fulfilled with the answer or rejected
askQuestion_leaky(outcome) ==
    IF outcome.network \/ ~outcome.json
    THEN [fulfilled |-> FALSE, value |-> ASK_ERROR]
    ELSE IF ~(outcome.status \in 200..299)
    THEN [fulfilled |-> FALSE, value |-> outcome.error]
    ELSE [fulfilled |-> TRUE,
          value |-> IF outcome.answer = "" THEN ASK_FALLBACK ELSE outcome.answer]
askQuestion(outcome) ==
    IF outcome.network \/ ~(outcome.status \in 200..299) \/ ~outcome.json
    THEN [fulfilled |-> FALSE, value |-> ASK_ERROR]
    ELSE [fulfilled |-> TRUE,
          value |-> IF outcome.answer = "" THEN ASK_FALLBACK ELSE outcome.answer]

UIState == [question |-> question, messages |-> messages, loading |-> loading,
            inFlight |-> inFlight]

\* handleSubmit up to its await: the state after the call
handleSubmit_noLoading(s) ==
    IF Len(trim(s.question)) = 0 THEN s
    ELSE [s EXCEPT !.messages = Append(s.messages, [type |-> "user", content |-> s.question]),
                   !.inFlight = Append(s.inFlight, s.question)]
handleSubmit(s) ==
    IF Len(trim(s.question)) = 0 THEN s
    ELSE [s EXCEPT !.loading = TRUE,
                   !.messages = Append(s.messages, [type |-> "user", content |-> s.question]),
                   !.inFlight = Append(s.inFlight, s.question)]

SetUI(s) ==
    /\ question' = s.question
    /\ messages' = s.messages
    /\ loading' = s.loading
    /\ inFlight' = s.inFlight

\* onChange of the input; the input is disabled while loading
ChangeInput ==
    /\ ~loading
    /\ \E text \in InputTexts : question' = text
    /\ UNCHANGED <<messages, loading, inFlight, toasts, lastSettled>>
    /\ UNCHANGED <<hvars, fvars>>

\* click on the submit button (disabled while loading): the form's submit event
ClickSubmit ==
    /\ ~loading
    /\ Len(messages) < MaxMessages
    /\ SetUI(handleSubmit(UIState))
    /\ UNCHANGED <<toasts, lastSettled>>
    /\ UNCHANGED <<hvars, fvars>>

\* Enter in the input: handleKeyDown calls handleSubmit, then the browser submits
\* the form through its default button unless that button is now disabled
PressEnter ==
    /\ ~loading
    /\ Len(messages) < MaxMessages
    /\ LET afterKeyDown == handleSubmit(UIState)
       IN  SetUI(IF afterKeyDown.loading THEN afterKeyDown ELSE handleSubmit(afterKeyDown))
    /\ UNCHANGED <<toasts, lastSettled>>
    /\ UNCHANGED <<hvars, fvars>>

\* the awaited askQuestion settles: the rest of handleSubmit runs
AskSettles_noFinally ==
    /\ Len(inFlight) > 0
    /\ \E i \in 1..Len(inFlight), outcome \in FetchOutcomes :
        LET result == askQuestion(outcome)
        IN  /\ inFlight' = SubSeq(inFlight, 1, i - 1) \o SubSeq(inFlight, i + 1, Len(inFlight))
            /\ IF result.fulfilled
               THEN /\ messages' = Append(messages, [type |-> "ai", content |-> result.value])
                    /\ question' = ""
                    /\ loading' = FALSE
                    /\ UNCHANGED toasts
               ELSE /\ toasts' = toasts + 1
                    /\ UNCHANGED <<messages, question, loading>>
            /\ lastSettled' = <<[outcome |-> outcome, result |-> result]>>
    /\ UNCHANGED <<hvars, fvars>>
AskSettles_alwaysClears ==
    /\ Len(inFlight) > 0
    /\ \E i \in 1..Len(inFlight), outcome \in FetchOutcomes :
        LET result == askQuestion(outcome)
        IN  /\ inFlight' = SubSeq(inFlight, 1, i - 1) \o SubSeq(inFlight, i + 1, Len(inFlight))
            /\ IF result.fulfilled
               THEN /\ messages' = Append(messages, [type |-> "ai", content |-> result.value])
                    /\ question' = ""
                    /\ UNCHANGED toasts
               ELSE /\ toasts' = toasts + 1
                    /\ question' = ""
                    /\ UNCHANGED messages
            /\ loading' = FALSE
            /\ lastSettled' = <<[outcome |-> outcome, result |-> result]>>
    /\ UNCHANGED <<hvars, fvars>>
AskSettles ==
    /\ Len(inFlight) > 0
    /\ \E i \in 1..Len(inFlight), outcome \in FetchOutcomes :
        LET result == askQuestion(outcome)
        IN  /\ inFlight' = SubSeq(inFlight, 1, i - 1) \o SubSeq(inFlight, i + 1, Len(inFlight))
            /\ IF result.fulfilled
               THEN /\ messages' = Append(messages, [type |-> "ai", content |-> result.value])
                    /\ question' = ""
                    /\ UNCHANGED toasts
               ELSE /\ toasts' = toasts + 1
                    /\ UNCHANGED <<messages, question>>
            /\ loading' = FALSE
            /\ lastSettled' = <<[outcome |-> outcome, result |-> result]>>
    /\ UNCHANGED <<hvars, fvars>>

----------------------------------------------------------------------------
(* The formatter applied to records of the index *)

MaxAbsent == 2

SOURCE_TEXT == "The Spitfire is a British fighter."

BaseMetadata(info_type) ==
    [item_name |-> "Spitfire", entity_type |-> "aircraft", info_type |-> info_type,
     text_content_source |-> SOURCE_TEXT]

\* a fully populated metadata object of each kind of record
FullMetadata(info_type) ==
    BaseMetadata(info_type) @@
    (IF info_type = "general_info"
     THEN [price |-> "5000", currency |-> "$", unlock_method |-> "Purchase",
           unlock_details |-> "Rank 10", seating_capacity |-> "1",
           armament_summary |-> ArrayOf(<<"Machine Guns", "Bombs">>),
           utility |-> ArrayOf(<<"Flares">>),
           hulls_component_count |-> "2", engines_component_count |-> "1",
           parts_cost_hulls |-> "3", parts_cost_weapon_systems |-> "2",
           parts_cost_engines |-> "4",
           speed_min_display |-> "300", speed_max_display |-> "400",
           health_min_display |-> "900", health_max_display |-> "1200"]
     ELSE IF info_type = "stat_speed"
     THEN [unit |-> "MPH",
           display_speed_non_upgraded |-> "300 MPH", speed_nu_val |-> "300",
           display_speed_tier_1 |-> "330 MPH", speed_t1_val |-> "330",
           display_speed_tier_2 |-> "360 MPH", speed_t2_val |-> "360",
           display_speed_tier_3 |-> "400 MPH", speed_t3_val |-> "400"]
     ELSE IF info_type = "stat_health"
     THEN [unit |-> "HP",
           display_health_non_upgraded |-> "900 HP", health_nu_val |-> "900",
           display_health_tier_1 |-> "1000 HP", health_t1_val |-> "1000",
           display_health_tier_2 |-> "1100 HP", health_t2_val |-> "1100",
           display_health_tier_3 |-> "1200 HP", health_t3_val |-> "1200"]
     ELSE IF info_type = "armament_description"
     THEN [weapon_name |-> "Hispano", count |-> "2", weapon_type_general |-> "Cannon",
           characteristics |-> ArrayOf(<<"Fast firing">>), notes |-> "Wing mounted"]
     ELSE IF info_type = "history"
     THEN [section_title |-> "Service", key_periods |-> ArrayOf(<<"1940", "1944">>)]
     ELSE IF info_type = "overview_concise"
     THEN [role |-> "Fighter", strengths |-> ArrayOf(<<"Agile">>),
           weaknesses |-> ArrayOf(<<"Fragile">>),
           utility_summary_for_concise |-> ArrayOf(<<"Flares">>)]
     ELSE IF info_type = "category_membership"
     THEN [aircraft_category |-> "Fighters"]
     ELSE <<>>)

\* the info types the formatter has a template for
TemplateInfoTypes == {"general_info", "stat_speed", "stat_health", "armament_description",
                      "history", "overview_concise", "category_membership"}

Without(md, absent) == [f \in DOMAIN md \ absent |-> md[f]]

RECURSIVE SubsetsUpTo(_, _)
SubsetsUpTo(S, n) ==
    IF n = 0 THEN {{}}
    ELSE LET smaller == SubsetsUpTo(S, n - 1)
         IN  smaller \cup {A \cup {x} : A \in smaller, x \in S}

\* the fields a record may lack: any but the two that select its template
Optional(info_type) == DOMAIN FullMetadata(info_type) \ {"entity_type", "info_type"}

\* metadata of templated records, with up to MaxAbsent fields, or all of them, absent,
\* or with a list field that holds a plain string
TemplateMetadata ==
    UNION {{Without(FullMetadata(t), absent) :
                absent \in SubsetsUpTo(Optional(t), MaxAbsent) \cup {Optional(t)}} :
           t \in TemplateInfoTypes}
    \cup {[FullMetadata("general_info") EXCEPT !["armament_summary"] = TextOf("Machine Guns")],
          [FullMetadata("armament_description") EXCEPT !["characteristics"] = TextOf("Fast firing")],
          [FullMetadata("history") EXCEPT !["key_periods"] = TextOf("")]}

\* metadata of records no template applies to
OtherMetadata ==
    {<<>>,
     [item_name |-> "Game tips"],
     [text_content_source |-> "Earn money by capturing oil."],
     [entity_type |-> "aircraft"],
     FullMetadata("overview_full_text"),
     FullMetadata("stat_firepower") @@ [weapon_name |-> "Hispano", unit |-> "RPM"],
     [FullMetadata("stat_speed") EXCEPT !["entity_type"] = "tank"],
     Without(FullMetadata("general_info"), {"entity_type"}),
     Without(FullMetadata("armament_description"), {"info_type"}),
     [FullMetadata("history") EXCEPT !["entity_type"] = "tank",
                                     !["key_periods"] = TextOf("1940")]}

SamplePlanes ==
    <<[name |-> "Spitfire", price |-> "5000", unlock_method |-> "Purchase",
       seating_capacity |-> "1", armament_summary |-> ArrayOf(<<"Machine Guns">>),
       speed_range |-> "300 - 400 MPH", health_range |-> "900 - 1200 HP"],
      [price |-> "0", armament_summary |-> TextOf("Bombs")],
      <<>>>>

\* metadata of the summary record, with and without its list of planes
SummaryMetadata ==
    {MetadataOf(ALL_PLANES_SUMMARY_DOC_ID),
     MetadataOf(ALL_PLANES_SUMMARY_DOC_ID) @@ [planes_summary |-> ArrayOf(SamplePlanes),
                                               text_content_source |-> "All aircraft."],
     [planes_summary |-> ArrayOf(<<>>)],
     [planes_summary |-> TextOf("Spitfire, P-51 Mustang")]}

\* a record as the index holds it, and the same with a similarity score
Scored(records) == records \cup {r @@ [score |-> s] : r \in records, s \in {90}}

FormatterRecords ==
    Scored({[id |-> "spitfire_" \o md["info_type"], metadata |-> md] : md \in TemplateMetadata}
           \cup {[id |-> "game_tips", metadata |-> md] : md \in OtherMetadata}
           \cup {[id |-> ALL_PLANES_SUMMARY_DOC_ID, metadata |-> md] :
                    md \in SummaryMetadata \cup {FullMetadata("stat_speed")}}
           \cup {[id |-> "game_tips"], [id |-> ""], [metadata |-> <<>>]})

\* the lists the formatter is applied to: none, one record, or one record after
\* another one
FormatterInputs ==
    {<<>>} \cup {<<r>> : r \in FormatterRecords}
    \cup {<<[id |-> "game_tips", score |-> 40], r>> : r \in FormatterRecords}

FormatterIdle ==
    /\ fmtMatches = <<>>
    /\ fmtOut = [threw |-> FALSE, text |-> "", blocks |-> <<>>]
    /\ fmtCalled = FALSE

FormatterInit ==
    /\ fmtMatches \in FormatterInputs
    /\ fmtOut = [threw |-> FALSE, text |-> "", blocks |-> <<>>]
    /\ fmtCalled = FALSE

\* formatRetrievedContext(fmtMatches)
FormatContext ==
    /\ ~fmtCalled
    /\ fmtOut' = formatRetrievedContext(fmtMatches)
    /\ fmtCalled' = TRUE
    /\ UNCHANGED <<fmtMatches, hvars, uvars>>

NextFmt == FormatContext

NextUI ==
    \/ ChangeInput
    \/ ClickSubmit
    \/ PressEnter
    \/ AskSettles

Next ==
    \/ Receive
    \/ EmbeddingReturns
    \/ QueryReturns
    \/ SummaryFetchReturns
    \/ ItemFetchReturns
    \/ CompletionReturns

Init == HandlerInit /\ UIInit /\ FormatterIdle

Spec == Init /\ [][Next]_vars


SpecUI == Init /\ [][NextUI]_vars

\* the awaited fetch settles and the event loop resumes handleSubmit
SpecUILive == Init /\ [][NextUI]_vars /\ WF_vars(AskSettles)

\* the formatter alone, applied to one list of records
InitFmt == HandlerInit /\ UIInit /\ FormatterInit

SpecFmt == InitFmt /\ [][NextFmt]_vars

----------------------------------------------------------------------------
(* Properties *)

Finalized == \E i \in 1..Len(calls) : calls[i].op = "complete"
PastIdentification == pc = "awaitItemFetch" \/ Finalized
ContainsAny(lq, keywords) == \E i \in 1..Len(keywords) : includes(lq, keywords[i])
SummaryFetched == \E i \in 1..Len(finalMatches) :
                      finalMatches[i].id = ALL_PLANES_SUMMARY_DOC_ID /\ finalMatches[i].src = "fetch"
DirectFetchFailed == \E i \in 1..Len(logged) : logged[i].src \in {"summaryFetch", "itemFetch"}
BestScoreOf(id) ==
    CHOOSE sc \in {finalMatches[i].score : i \in {j \in 1..Len(finalMatches) : finalMatches[j].id = id}} :
        \A i \in 1..Len(finalMatches) : finalMatches[i].id = id => finalMatches[i].score <= sc

\* C1: a POST whose question is missing, not a string, empty or whitespace-only is
\* answered 400 with an error message, and no upstream call is issued.
C1_InvalidQuestionRejected ==
    (pc # "idle" /\ req.method = "POST" /\ InvalidQuestion(req.body.question))
        => /\ response.status = 400
           /\ "error" \in DOMAIN response.body
           /\ calls = <<>>

\* C2: when the accumulated list holds two records with one id and different
\* scores, the final context holds exactly one record of that id, the
\* higher-scoring one.
C2_HigherScoringDuplicateWins ==
    Finalized =>
        \A i, j \in 1..Len(finalMatches) :
            (finalMatches[i].id = finalMatches[j].id /\ finalMatches[i].score # finalMatches[j].score)
                => /\ Cardinality({n \in 1..Len(limitedMatches) :
                                      limitedMatches[n].id = finalMatches[i].id}) = 1
                   /\ \A n \in 1..Len(limitedMatches) :
                        limitedMatches[n].id = finalMatches[i].id
                            => limitedMatches[n].score = BestScoreOf(finalMatches[i].id)

\* C3: the records handed to the formatter have pairwise distinct ids.
C3_UniqueIds ==
    Finalized =>
        \A i, j \in 1..Len(limitedMatches) :
            i # j => limitedMatches[i].id # limitedMatches[j].id

\* C3 witness: a finalized request whose accumulated list held one id twice.
C3_Witness ==
    /\ Finalized
    /\ \E i, j \in 1..Len(finalMatches) : i # j /\ finalMatches[i].id = finalMatches[j].id
    /\ Len(limitedMatches) >= 2

\* C4: the final context list is in non-increasing score order.
C4_DescendingScores ==
    Finalized =>
        \A i \in 1..(Len(limitedMatches) - 1) :
            limitedMatches[i].score >= limitedMatches[i + 1].score

\* C5: the page never has more than one askQuestion call in flight.
C5_AtMostOneInFlight == Len(inFlight) <= 1

\* C5 witness: a request in flight, started after an earlier one had settled.
C5_Witness == Len(inFlight) = 1 /\ loading /\ Len(messages) >= 2

\* C6: a direct fetch that throws or returns no record does not abort the request:
\* the handler goes on to the completion call and answers 200 unless that call fails.
C6_FetchFailureNotFatal ==
    DirectFetchFailed =>
        /\ pc \in {"awaitItemFetch", "awaitCompletion", "done"}
        /\ (pc = "done" =>
              /\ Finalized
              /\ \/ response.status = 200 /\ "answer" \in DOMAIN response.body
                 \/ /\ response.status = 500
                    /\ Cardinality({i \in 1..Len(logged) : logged[i].src = "handler"}) = 1
                    /\ logged[Len(logged)].src = "handler")

\* C6 witness: a request answered 200 after a direct fetch had thrown.
C6_Witness ==
    /\ pc = "done"
    /\ response.status = 200
    /\ \E i \in 1..Len(logged) :
          logged[i].src \in {"summaryFetch", "itemFetch"} /\ logged[i].level = "error"
    /\ Len(limitedMatches) >= 1

\* C7: when the embedding, query or completion call throws, the response is 500
\* with a body holding an error key and no answer key.
C7_UpstreamFailureIs500 ==
    (pc = "done" /\ \E i \in 1..Len(logged) : logged[i].src = "handler")
        => /\ response.status = 500
           /\ "error" \in DOMAIN response.body
           /\ "answer" \notin DOMAIN response.body

\* C7 witness: the completion call itself threw.
C7_Witness ==
    /\ pc = "done"
    /\ Finalized
    /\ Len(logged) > 0 /\ logged[Len(logged)].src = "handler"
    /\ response.status = 500

\* C8: the body of a 500 response carries a failure message only, and no verbatim
\* content of the upstream error (which is logged server-side).
C8_ErrorNotExposed ==
    response.status = 500 =>
        \A key \in DOMAIN response.body \ {"error"} :
            \A i \in 1..Len(logged) :
                /\ response.body[key].stack # logged[i].error.stack
                /\ response.body[key].message # logged[i].error.message

\* C9: a list-all question makes the handler fetch the summary id right after the
\* query, and a fetched summary record is the first block of the context.
C9_SummaryFirst ==
    /\ (isAllPlanesQuery(lowerCaseQuestion) /\ PastIdentification)
          => \E i \in 2..Len(calls) :
                /\ calls[i] = Call("fetch", <<ALL_PLANES_SUMMARY_DOC_ID>>)
                /\ calls[i - 1].op = "query"
    /\ (Finalized /\ SummaryFetched)
          => /\ Len(contexts.blocks) >= 1
             /\ contexts.blocks[1].id = ALL_PLANES_SUMMARY_DOC_ID
             /\ contexts.blocks[1].chunk = 1

\* C9 witness: the summary was fetched next to semantic matches, one of them the
\* summary document itself.
C9_Witness ==
    /\ Finalized
    /\ SummaryFetched
    /\ Len(finalMatches) >= 3
    /\ \E i \in 1..Len(finalMatches) : finalMatches[i].score = SummaryScore /\ finalMatches[i].src = "query"

NamesItem(lq, k) == itemNameInQuery(lq, KNOWN_GAME_ITEMS[k])
SpeedOnlyQuestion(lq) ==
    /\ ContainsAny(lq, SPEED_STAT_KEYWORDS)
    /\ ~ContainsAny(lq, HEALTH_STAT_KEYWORDS)
    /\ ~ContainsAny(lq, GENERAL_STAT_KEYWORDS)
StatId(k, x) == itemNameSnakeCase(KNOWN_GAME_ITEMS[k].name) \o ItemSuffixes[x]
InFetchList(id) == \E i \in 1..Len(idsToFetchIfNeeded) : idsToFetchIfNeeded[i] = id
AmongMatches(id) == \E i \in 1..Len(finalMatches) :
                        finalMatches[i].id = id /\ finalMatches[i].src = "query"
SpeedScenarioHolds(k) ==
    /\ primaryItemName = KNOWN_GAME_ITEMS[k].name
    /\ InFetchList(StatId(k, 3)) <=> ~AmongMatches(StatId(k, 3))
    /\ ~InFetchList(StatId(k, 4))

\* C10 as stated: every question naming a catalog item with a speed keyword and no
\* health or general keyword resolves to that item and fetches its speed document
\* (unless already matched), not its health document.
C10_SpeedQuestion_Original ==
    \A k \in 1..Len(KNOWN_GAME_ITEMS) :
        (PastIdentification /\ NamesItem(lowerCaseQuestion, k) /\ SpeedOnlyQuestion(lowerCaseQuestion))
            => SpeedScenarioHolds(k)

\* C10 amended: the same, for a question that names no other catalog item and
\* holds no list-all trigger phrase.
C10_SpeedQuestion ==
    \A k \in 1..Len(KNOWN_GAME_ITEMS) :
        (/\ PastIdentification
         /\ NamesItem(lowerCaseQuestion, k)
         /\ \A o \in 1..Len(KNOWN_GAME_ITEMS) : o # k => ~NamesItem(lowerCaseQuestion, o)
         /\ ~ContainsAny(lowerCaseQuestion, ALL_PLANES_KEYWORDS)
         /\ SpeedOnlyQuestion(lowerCaseQuestion))
            => SpeedScenarioHolds(k)

\* C10 witness: the speed question about the Spitfire, its speed document in the
\* fetch list.
C10_Witness ==
    /\ PastIdentification
    /\ NamesItem(lowerCaseQuestion, 3)
    /\ ~NamesItem(lowerCaseQuestion, 1)
    /\ ~ContainsAny(lowerCaseQuestion, ALL_PLANES_KEYWORDS)
    /\ SpeedOnlyQuestion(lowerCaseQuestion)
    /\ primaryItemName = "Spitfire"
    /\ InFetchList("spitfire_stat_speed")

----------------------------------------------------------------------------
(* Properties of the context formatter *)

MetadataIn(match) == IF "metadata" \in DOMAIN match THEN match.metadata ELSE <<>>

FieldOr(md, f, d) == IF f \in DOMAIN md /\ md[f] # "" THEN md[f] ELSE d

\* the record the summary template applies to
IsSummaryRecord(match) ==
    /\ "id" \in DOMAIN match /\ match.id = ALL_PLANES_SUMMARY_DOC_ID
    /\ "planes_summary" \in DOMAIN MetadataIn(match)
    /\ MetadataIn(match)["planes_summary"].isArray

\* the per-type template that applies to a record, "" when none does
TemplateOf(match) ==
    IF /\ ~IsSummaryRecord(match)
       /\ FieldOr(MetadataIn(match), "entity_type", "") = "aircraft"
       /\ FieldOr(MetadataIn(match), "info_type", "") \in TemplateInfoTypes
    THEN MetadataIn(match)["info_type"] ELSE ""

Placeholders == {"N/A", "[TBA]"}

Slot(fields, label, pos) == [fields |-> fields, label |-> label, pos |-> pos]

TierSlots(stat) ==
    UNION {{Slot({StatTiers(stat)[n].display}, StatTiers(stat)[n].label, 1),
            Slot({StatTiers(stat)[n].val}, StatTiers(stat)[n].label, 2)} : n \in 1..4}

\* where each field of a template is shown: the line's label and the position of
\* the value in it; Price/Unlock shows price or else unlock_method
Slots(info_type) ==
    IF info_type = "general_info"
    THEN {Slot({"price", "unlock_method"}, "Price/Unlock", 1),
          Slot({"unlock_details"}, "Unlock Details", 1),
          Slot({"seating_capacity"}, "Seating Capacity", 1),
          Slot({"armament_summary"}, "Armaments Summary", 1),
          Slot({"utility"}, "Utilities", 1),
          Slot({"hulls_component_count"}, "Component Counts", 1),
          Slot({"engines_component_count"}, "Component Counts", 2),
          Slot({"parts_cost_hulls"}, "Spawn Parts Cost", 1),
          Slot({"parts_cost_weapon_systems"}, "Spawn Parts Cost", 2),
          Slot({"parts_cost_engines"}, "Spawn Parts Cost", 3),
          Slot({"speed_min_display"}, "Display Speed Range", 1),
          Slot({"speed_max_display"}, "Display Speed Range", 2),
          Slot({"health_min_display"}, "Display Health Range", 1),
          Slot({"health_max_display"}, "Display Health Range", 2)}
    ELSE IF info_type = "stat_speed"
    THEN {Slot({"unit"}, "Detailed Speed Stats", 1)} \cup TierSlots("speed")
    ELSE IF info_type = "stat_health"
    THEN {Slot({"unit"}, "Detailed Health Stats", 1)} \cup TierSlots("health")
    ELSE IF info_type = "armament_description"
    THEN {Slot({"weapon_name"}, "Described Weapon", 1), Slot({"count"}, "Described Weapon", 2),
          Slot({"weapon_type_general"}, "Described Weapon", 3),
          Slot({"characteristics"}, "Characteristics", 1), Slot({"notes"}, "Notes", 1)}
    ELSE IF info_type = "history"
    THEN {Slot({"key_periods"}, "Key Periods", 1)}
    ELSE IF info_type = "overview_concise"
    THEN {Slot({"role"}, "Role", 1), Slot({"strengths"}, "Strengths", 1),
          Slot({"weaknesses"}, "Weaknesses", 1),
          Slot({"utility_summary_for_concise"}, "Utilities", 1)}
    ELSE IF info_type = "category_membership"
    THEN {Slot({"aircraft_category"}, "Category", 1)}
    ELSE {}

ShowsPlaceholder(block, slot) ==
    \E n \in 1..Len(block.details) :
        /\ block.details[n].label = slot.label
        /\ Len(block.details[n].values) >= slot.pos
        /\ block.details[n].values[slot.pos] \in Placeholders

\* C11: for every record that has a rendering template, each field of the
\* template that the metadata lacks is shown as a placeholder ("N/A" or "[TBA]"),
\* never left out; this includes each of the four tiers of a stat_speed or
\* stat_health record.
C11_AbsentFieldsShowPlaceholder ==
    (fmtCalled /\ ~fmtOut.threw) =>
        \A i \in 1..Len(fmtMatches) :
            \A slot \in Slots(TemplateOf(fmtMatches[i])) :
                (slot.fields \cap DOMAIN MetadataIn(fmtMatches[i]) = {})
                    => ShowsPlaceholder(fmtOut.blocks[i], slot)

HeaderOf(match, index) ==
    [chunk |-> index,
     id |-> FieldOr(match, "id", "N/A"),
     score |-> IF "score" \in DOMAIN match THEN toFixed4(match.score)
               ELSE "N/A (Directly Fetched)",
     item_name |-> FieldOr(MetadataIn(match), "item_name", "Unknown Item"),
     entity_type |-> FieldOr(MetadataIn(match), "entity_type", "Unknown"),
     info_type |-> FieldOr(MetadataIn(match), "info_type", "General")]

\* C12: for records that no template applies to, whatever their metadata and
\* also without metadata, the formatter does not throw and each block is the
\* generic header followed by the raw source text, with no detail block.
C12_NoTemplateHeaderAndSource ==
    (fmtCalled /\ \A i \in 1..Len(fmtMatches) :
                     TemplateOf(fmtMatches[i]) = "" /\ ~IsSummaryRecord(fmtMatches[i]))
        => /\ ~fmtOut.threw
           /\ Len(fmtOut.blocks) = Len(fmtMatches)
           /\ \A i \in 1..Len(fmtMatches) :
                LET block == fmtOut.blocks[i]
                IN  /\ [f \in DOMAIN HeaderOf(fmtMatches[i], i) |-> block[f]]
                            = HeaderOf(fmtMatches[i], i)
                    /\ block.details = <<>>
                    /\ block.source = FieldOr(MetadataIn(fmtMatches[i]), "text_content_source",
                                              "No source text available for this chunk.")

\* a record without metadata and a record of an unknown kind that carries stat
\* fields have been formatted
C12_Witness ==
    /\ fmtCalled /\ ~fmtOut.threw
    /\ Len(fmtMatches) = 2
    /\ "metadata" \notin DOMAIN fmtMatches[1]
    /\ fmtOut.blocks[1].source = "No source text available for this chunk."
    /\ "metadata" \in DOMAIN fmtMatches[2]
    /\ "unit" \in DOMAIN fmtMatches[2].metadata
    /\ TemplateOf(fmtMatches[2]) = ""
    /\ fmtOut.blocks[2].details = <<>>
    /\ fmtOut.blocks[2].source = SOURCE_TEXT

----------------------------------------------------------------------------
(* Properties of the handler's calls and responses *)

CountOf(op) == Cardinality({i \in 1..Len(calls) : calls[i].op = op})

\* the formatter has produced the context of this request
FormatterRan == contexts # [threw |-> FALSE, text |-> "", blocks |-> <<>>]

\* C13: when the context formatter runs, exactly one embedding call and exactly
\* one similarity query have been issued before it, the embedding first.
C13_EmbedThenQueryBeforeFormat ==
    FormatterRan =>
        /\ Len(req.body.question.val) > 0
        /\ CountOf("embed") = 1 /\ CountOf("query") = 1
        /\ calls[1].op = "embed" /\ calls[2].op = "query"
        /\ \A i \in 1..Len(calls) : calls[i].op = "complete" => i > 2

\* the formatter has run on a merged list after both direct fetches
C13_Witness ==
    /\ FormatterRan
    /\ pc = "awaitCompletion"
    /\ Len(contexts.blocks) >= 2
    /\ CountOf("fetch") = 2

\* C14: a POST answered 200 has issued exactly one embedding call, one
\* similarity query, at most two direct-fetch calls and one completion call.
C14_CallBudget ==
    (response.status = 200 /\ req.method = "POST") =>
        /\ CountOf("embed") = 1
        /\ CountOf("query") = 1
        /\ CountOf("fetch") <= 2
        /\ CountOf("complete") = 1
        /\ Len(calls) = 3 + CountOf("fetch")

\* a 200 after both the summary fetch and a per-item fetch
C14_Witness ==
    /\ response.status = 200 /\ req.method = "POST"
    /\ CountOf("fetch") = 2
    /\ Len(idsToFetchIfNeeded) >= 1
    /\ calls[3].ids = <<ALL_PLANES_SUMMARY_DOC_ID>>

\* C15: OPTIONS is answered 200 with an empty body and any method other than
\* POST and OPTIONS is answered 405, whatever the body, with no upstream call.
C15_MethodGate ==
    (pc # "idle" /\ req.method # "POST") =>
        /\ pc = "done"
        /\ calls = <<>>
        /\ IF req.method = "OPTIONS"
           THEN response = [status |-> 200, body |-> <<>>]
           ELSE response.status = 405

\* an OPTIONS request without a body has been answered
C15_Witness ==
    /\ pc = "done"
    /\ req.method = "OPTIONS"
    /\ ~req.body.present
    /\ response.status = 200

\* C16: the answer of a 200 response to a POST is the completion text trimmed,
\* or the fixed fallback when there is no choice or the text trims to nothing,
\* and is never the empty string.
C16_AnswerIsTrimmedOrFallback ==
    (response.status = 200 /\ req.method = "POST") =>
        /\ response.body.answer # ""
        /\ IF completion.hasChoice /\ trim(completion.content) # ""
           THEN response.body.answer = trim(completion.content)
           ELSE response.body.answer = "Sorry, I encountered an issue generating an answer."

\* a 200 whose completion text was blank, and so carries the fallback
C16_Witness ==
    /\ response.status = 200 /\ req.method = "POST"
    /\ completion.hasChoice /\ completion.content = "   "
    /\ response.body.answer = ANSWER_FALLBACK

----------------------------------------------------------------------------
(* Properties of the page and of askQuestion *)

\* C17: when the askQuestion call of a submit fails, one error notification is
\* shown, the input text and the transcript stay as they are, and loading is
\* set back to false.
C17_FailedAskKeepsInput ==
    [][(Len(inFlight') < Len(inFlight) /\ ~lastSettled'[1].result.fulfilled)
            => /\ toasts' = toasts + 1
               /\ question' = question
               /\ messages' = messages
               /\ loading' = FALSE]_vars

\* a submit has failed: the question is still in the input, the transcript ends
\* with the user's message, a notification is up and loading is off
C17_Witness ==
    /\ lastSettled # <<>>
    /\ ~lastSettled[1].result.fulfilled
    /\ toasts = 1
    /\ question = "spitfire health"
    /\ Len(messages) = 1
    /\ messages[1] = [type |-> "user", content |-> "spitfire health"]
    /\ ~loading

\* C18: askQuestion fulfils with the answer of an ok response whose body parses,
\* or with a fixed fallback when that answer is missing or empty, and rejects
\* every other outcome with the one generic error, never with the backend's
\* error text; the value is never the empty string.
C18_AskQuestionResult ==
    lastSettled # <<>> =>
        LET o == lastSettled[1].outcome
            r == lastSettled[1].result
        IN  /\ r.value # ""
            /\ IF ~o.network /\ o.status >= 200 /\ o.status <= 299 /\ o.json
               THEN /\ r.fulfilled
                    /\ r.value = IF o.answer # "" THEN o.answer
                                 ELSE "Sorry, I could not generate an answer."
               ELSE /\ ~r.fulfilled
                    /\ r.value = "Failed to get answer from AI"
                    /\ r.value # o.error

\* a 500 whose body carries the backend's error text has been turned into the
\* generic error
C18_Witness ==
    /\ lastSettled # <<>>
    /\ lastSettled[1].outcome.status = 500
    /\ lastSettled[1].outcome.error = "Incorrect API key provided"
    /\ lastSettled[1].result = [fulfilled |-> FALSE, value |-> ASK_ERROR]

----------------------------------------------------------------------------
(* Properties of primary-item identification *)

ListAllQuestion == ContainsAny(lowerCaseQuestion, ALL_PLANES_KEYWORDS)

SummaryInResultSet ==
    \E i \in 1..Len(finalMatches) : finalMatches[i].id = ALL_PLANES_SUMMARY_DOC_ID

\* the i-th record is a semantic match whose item_name is the name of a catalog
\* entry that the question names
Qualifies(i) ==
    /\ finalMatches[i].src = "query"
    /\ \E k \in 1..Len(KNOWN_GAME_ITEMS) :
            /\ NamesItem(lowerCaseQuestion, k)
            /\ toLowerCase(KNOWN_GAME_ITEMS[k].name)
                    = toLowerCase(finalMatches[i].metadata.item_name)

----------------------------------------------------------------------------
(* Properties of the direct fetches and of the final list *)

\* the per-item fetch calls issued so far
ItemFetchCalls ==
    {c \in 1..Len(calls) : calls[c].op = "fetch" /\ calls[c].ids # <<ALL_PLANES_SUMMARY_DOC_ID>>}

C26_CapDropsNothing ==
    /\ TopK + 1 + Len(ItemSuffixes) <= 10
    /\ Finalized =>
        /\ \A i \in 1..Len(finalMatches) :
                \E n \in 1..Len(limitedMatches) : limitedMatches[n].id = finalMatches[i].id
        /\ Len(limitedMatches)
                = Cardinality({finalMatches[i].id : i \in 1..Len(finalMatches)})

\* topK semantic matches with the summary record among them, the summary record
\* fetched as well: six records under five ids, all five formatted
C26_Witness ==
    /\ Finalized
    /\ Len(finalMatches) = TopK + 1
    /\ SummaryFetched
    /\ Len(limitedMatches) = TopK

\* C23: in the formatted context a directly fetched record carries the
\* "directly fetched" marker in place of a score, and a semantic match carries
\* its numeric score.
C23_FetchedRecordsCarryMarker ==
    Finalized =>
        \A n \in 1..Len(limitedMatches) :
            contexts.blocks[n].score = IF limitedMatches[n].src = "fetch"
                                       THEN "N/A (Directly Fetched)"
                                       ELSE toFixed4(limitedMatches[n].score)

\* position of an upstream call in the order of one request
Rank(op) == IF op = "embed" THEN 1 ELSE IF op = "query" THEN 2 ELSE IF op = "fetch" THEN 3 ELSE 4

\* the await at which the handler is suspended on a call
AwaitOf(call) ==
    IF call.op = "embed" THEN {"awaitEmbedding"}
    ELSE IF call.op = "query" THEN {"awaitQuery"}
    ELSE IF call.op = "fetch" THEN {"awaitSummaryFetch", "awaitItemFetch"}
    ELSE {"awaitCompletion"}

\* C24: upstream calls are issued one at a time in the order embedding, query,
\* direct fetches, completion, the handler being suspended on each; a failed
\* embedding call or query ends the request with no further call.
C24_CallsInOrder ==
    [][/\ calls' # calls =>
            /\ Len(calls') = Len(calls) + 1
            /\ SubSeq(calls', 1, Len(calls)) = calls
            /\ pc' \in AwaitOf(calls'[Len(calls')])
            /\ pc # pc'
            /\ \A i \in 1..Len(calls) :
                    \/ Rank(calls[i].op) < Rank(calls'[Len(calls')].op)
                    \/ calls[i].op = "fetch" /\ calls'[Len(calls')].op = "fetch"
       /\ (pc \in {"awaitEmbedding", "awaitQuery"} /\ pc' = "done") =>
            /\ calls' = calls
            /\ response'.status = 500
       /\ pc \in {"done", "threw"} => calls' = calls]_vars

\* the query has failed: the request is over after two calls
C24_Witness ==
    /\ pc = "done"
    /\ response.status = 500
    /\ Len(calls) = 2
    /\ calls[1].op = "embed" /\ calls[2].op = "query"

\* C25: every invocation ends with exactly one response, of status 200, 400,
\* 405 or 500, whatever the method and the body and whichever upstream call
\* fails.
C25_AlwaysOneResponse ==
    /\ response.status \in {0, 200, 400, 405, 500}
    /\ response.status # 0 => pc = "done"
    /\ pc \in {"done", "threw"} => response.status \in {200, 400, 405, 500}

\* C27: a fetched summary record and fetched per-item documents are never both
\* in the result set; per-item documents are fetched only when the question has
\* no list-all phrase or the summary record is not in the result set.
C27_SummaryExcludesItemFetch ==
    /\ ~(SummaryFetched /\ \E i \in 1..Len(finalMatches) :
                              /\ finalMatches[i].src = "fetch"
                              /\ finalMatches[i].id # ALL_PLANES_SUMMARY_DOC_ID)
    /\ ItemFetchCalls # {} => (~ListAllQuestion \/ ~SummaryInResultSet)

\* a list-all question whose summary fetch failed: per-item documents were
\* fetched and are in the result set
C27_Witness ==
    /\ Finalized /\ ListAllQuestion
    /\ ~SummaryInResultSet
    /\ ItemFetchCalls # {}
    /\ \E i \in 1..Len(finalMatches) :
            finalMatches[i].src = "fetch" /\ finalMatches[i].score = FetchedScore

\* the query returned nothing (or failed) and the request is over
EmptyResultSet == Finalized /\ finalMatches = <<>>

\* C28 as stated: with no match and no fetched record the context is the fixed
\* string, the completion is called once, and the response is 200.
C28_EmptyContextAnswered_Original ==
    EmptyResultSet =>
        /\ contexts.text = "No relevant information was found in the knowledge base for this query."
        /\ contexts.blocks = <<>>
        /\ CountOf("complete") = 1
        /\ pc = "done" => response.status = 200

\* C28 amended: the same, the response being 200 unless the completion call
\* itself fails, and then 500.
C28_EmptyContextAnswered ==
    EmptyResultSet =>
        /\ contexts.text = "No relevant information was found in the knowledge base for this query."
        /\ contexts.blocks = <<>>
        /\ limitedMatches = <<>>
        /\ CountOf("complete") = 1
        /\ calls[Len(calls)].op = "complete"
        /\ pc = "done" =>
                \/ response.status = 200
                \/ /\ response.status = 500
                   /\ logged # <<>>
                   /\ logged[Len(logged)] \in {LogEntry("handler", "error", error) : error \in Errors}

\* nothing matched, the per-item fetch found nothing either, and the request
\* was answered 200 from the fixed context
C28_Witness ==
    /\ EmptyResultSet
    /\ pc = "done" /\ response.status = 200
    /\ CountOf("fetch") = 1
    /\ contexts.text = NO_CONTEXT_TEXT

\* the request in flight whose settlement a step delivers
SettledRequest(i) ==
    /\ i \in 1..Len(inFlight)
    /\ inFlight' = SubSeq(inFlight, 1, i - 1) \o SubSeq(inFlight, i + 1, Len(inFlight))

\* C29: every AI message of the transcript directly follows the user message
\* that asked for it, and the transcript only grows at its end; a failed
\* request leaves its user message with no AI message after it.
C29_TranscriptPairs ==
    /\ [](\A i \in 1..Len(messages) :
            messages[i].type = "ai" => (i > 1 /\ messages[i - 1].type = "user"))
    /\ [][/\ Len(messages') >= Len(messages)
          /\ SubSeq(messages', 1, Len(messages)) = messages
          /\ Len(messages') <= Len(messages) + 1
          /\ (Len(messages') > Len(messages) /\ messages'[Len(messages')].type = "ai") =>
                /\ messages # <<>>
                /\ \E i \in 1..Len(inFlight) :
                        /\ SettledRequest(i)
                        /\ messages[Len(messages)] = [type |-> "user", content |-> inFlight[i]]
                /\ lastSettled'[1].result.fulfilled
          /\ (Len(inFlight') < Len(inFlight) /\ ~lastSettled'[1].result.fulfilled) =>
                /\ messages' = messages
                /\ messages[Len(messages)].type = "user"]_vars

\* a failed request followed by a successful one
C29_Witness ==
    /\ Len(messages) = 3
    /\ messages[1].type = "user" /\ messages[2].type = "user" /\ messages[3].type = "ai"
    /\ messages[1].content # messages[2].content
    /\ toasts >= 1

Blank(text) == Len(trim(text)) = 0

\* C30: a submit that starts a request sets loading, and loading returns to
\* false when the request settles, by success or by failure; a submit of an
\* empty or whitespace-only question starts no request and changes nothing.
C30_LoadingReturns ==
    /\ loading ~> ~loading
    /\ [](loading <=> inFlight # <<>>)
    /\ [](Blank(question) => handleSubmit(UIState) = UIState)
    /\ [][/\ Len(inFlight') > Len(inFlight) =>
                /\ ~Blank(question)
                /\ loading' /\ ~loading
                /\ inFlight' = Append(inFlight, question)
                /\ question' = question
          /\ Len(inFlight') < Len(inFlight) => (loading /\ ~loading')
          /\ Blank(question) =>
                /\ inFlight' = inFlight \/ \E i \in 1..Len(inFlight) : SettledRequest(i)
                /\ loading' => loading
                /\ \A i \in 1..Len(messages') : i > Len(messages) => messages'[i].type = "ai"]_vars

\* a request failed, loading is back to false, and the input now holds only
\* white space
C30_Witness ==
    /\ lastSettled # <<>> /\ ~lastSettled[1].result.fulfilled
    /\ ~loading /\ inFlight = <<>>
    /\ Blank(question) /\ question # ""
    /\ Len(messages) >= 1

====
